---- MODULE Spec2Model ----
(***************************************************************************)
(* State-machine model of bitcoin-block-parser.                            *)
(*                                                                         *)
(*  - the parallel engine, BlockParser::parse_with_opts (src/src/blocks.rs)*)
(*    with its extract pool, intermediate channel, reorder worker or batch *)
(*    pool, output channel and consumer;                                   *)
(*  - the UTXO filter builder and the two-stage UTXO pipeline              *)
(*    (src/src/utxos.rs).                                                  *)
(***************************************************************************)
EXTENDS Integers, Sequences, FiniteSets, TLC

\* ------------------------------------------------------------- bounds
MaxHeaders == 5
MaxBatch == 2
MaxThreads == 2
MaxChan == 2
MaxCorrupt == 1
MaxFairHeaders == 3
MaxBlocks == 3
MaxOutputs == 2
MaxInputs == 1
MaxSpends == 1
MaxBuilds == 2
MaxBuildBlocks == 2
MaxWraps == 2
MaxTxidByte == 1

VARIABLES
    opts,          \* Options: order_output, num_threads, batch_size, channel_buffer_size
    headers,       \* the descriptor slice H; header.ok says whether its block decodes
    task,          \* extract pool jobs, one per batch index
    chan_b,        \* intermediate channel (tx_b, rx_b): (index, Result<Vec<B>>)
    reorder,       \* the single reorder thread of ordered mode
    bworker,       \* the batch pool of unordered mode
    chan_c,        \* output channel (tx_c, rx_c): Result<C>
    rx_c_dropped,  \* the consumer dropped the output stream
    out,           \* items the consumer has received, in order
    batch_calls,   \* per block: how often its extract result was passed to batch
    batch_log,     \* the reorder thread's send_batch invocations, in order, with their calls
    chain,         \* the decoded blocks of the parsed range, in blockchain order
    use_filter,    \* the parser builds and attaches a filter before parsing
    phase,         \* "build" (create_filter), "parse" (UtxoParser::parse)
    build_filter,  \* UtxoFilter.filter while create_filter runs
    built,         \* number of blocks create_filter has applied update to
    filter,        \* UtxoPipeline.filter: Option<ShortOutPointFilter>
    amounts,       \* UtxoPipeline.amounts: ShortOutPoint -> Amount
    stage1,        \* number of blocks Pipeline::first has been applied to
    stage2,        \* number of blocks Pipeline::second has been applied to
    blocks,        \* the UtxoBlock of every block of the range
    panicked,      \* expect("Missing outpoint") failed
    builds,        \* the filter loader call in progress and the create_filter runs so far
    file,          \* the filter file on disk
    call           \* a call of ShortOutPoint::new or of the Options setters, with its result;
                   \* or where inside their blocks the two pipeline stages are

engineVars == <<opts, headers, task, chan_b, reorder, bworker, chan_c,
                rx_c_dropped, out, batch_calls, batch_log>>

utxoVars == <<chain, use_filter, phase, build_filter, built, filter, amounts,
              stage1, stage2, blocks, panicked, builds, file, call>>

vars == <<engineVars, utxoVars>>

\* ------------------------------------------------------------- helpers
RECURSIVE SeqSum(_)
SeqSum(s) == IF s = <<>> THEN 0 ELSE Head(s) + SeqSum(Tail(s))

\* Result<T> for a single value (Block, C): Ok(v) or Err(e); 0 fills the unused side.
Ok(v) == [ok |-> TRUE, val |-> v, err |-> 0]
Err(e) == [ok |-> FALSE, val |-> 0, err |-> e]

\* Result<Vec<B>>: Ok(vec) or Err(e).
OkVec(v) == [ok |-> TRUE, val |-> v, err |-> 0]
ErrVec(e) == [ok |-> FALSE, val |-> <<>>, err |-> e]

\* ------------------------------------------------------------- Options
DefaultOptions ==
    [order_output |-> FALSE, num_threads |-> 128, batch_size |-> 10,
     channel_buffer_size |-> 100, log_at |-> 10000]

\* Every Options value the setters can build, within the bounds (log_at, which only
\* paces the progress log, stays at its default).
OptionsSet ==
    [order_output : BOOLEAN, num_threads : 1..MaxThreads,
     batch_size : 1..MaxBatch, channel_buffer_size : 1..MaxChan, log_at : {10000}]

\* ------------------------------------------------------------- batching
\* Mutant of PushHeader: a full batch is replaced by the new empty one.
PushHeaderDropsFull(batched, header, batch_size) ==
    LET n == Len(batched)
        last == Append(batched[n], header)
        pushed == [batched EXCEPT ![n] = last]
    IN  IF Len(last) = batch_size THEN [batched EXCEPT ![n] = <<>>] ELSE pushed

\* One iteration of the loop that builds `batched`.
PushHeader(batched, header, batch_size) ==
    LET n == Len(batched)
        last == Append(batched[n], header)
        pushed == [batched EXCEPT ![n] = last]
    IN  IF Len(last) = batch_size THEN Append(pushed, <<>>) ELSE pushed

RECURSIVE BatchLoop(_, _, _)
BatchLoop(batched, hs, batch_size) ==
    IF hs = <<>> THEN batched
    ELSE BatchLoop(PushHeader(batched, Head(hs), batch_size), Tail(hs), batch_size)

\* `batched` as parse_with_opts builds it: starts as vec![vec![]].
Batched(hs, batch_size) == BatchLoop(<< <<>> >>, hs, batch_size)

\* ------------------------------------------------------------- user callables
\* ParallelParser / InOrderParser extract: vec![block].
extract(block) == <<block>>

\* BlockParser::batch default: the items unchanged.
batch(items) == items

\* std::convert::identity as the terminal map.
map(b) == b

\* parse_block: the block of a descriptor, or the decode failure.
parse_block(header) == IF header.ok THEN Ok(header.id) ELSE Err(header.id)

\* ------------------------------------------------------------- send_batch
\* Mutant of SendBatchResults: the items are collected last to first.
SendBatchResultsReversed(b) ==
    IF b.ok THEN [i \in 1..Len(batch(b.val)) |->
                    Ok(map(batch(b.val)[Len(batch(b.val)) + 1 - i]))]
    ELSE <<Err(b.err)>>

\* Mutant of SendBatchResults: a failure is passed to batch as an empty vector.
SendBatchResultsBatchesErr(b) ==
    IF b.ok THEN [i \in 1..Len(batch(b.val)) |-> Ok(map(batch(b.val)[i]))]
    ELSE [i \in 1..Len(batch(<<>>)) |-> Ok(map(batch(<<>>)[i]))]

\* The `results` vector send_batch builds before sending.
SendBatchResults(b) ==
    IF b.ok THEN [i \in 1..Len(batch(b.val)) |-> Ok(map(batch(b.val)[i]))]
    ELSE <<Err(b.err)>>

\* One send_batch invocation on the message b of batch `index`: the arguments it
\* calls batch with (batch.map(|b| self.batch(b)): none for an Err), the arguments it
\* calls map with (the items batch returned, in order), and the results it sends.
SendBatchCalls(index, b) ==
    [index |-> index, msg |-> b,
     batch_args |-> IF b.ok THEN <<b.val>> ELSE <<>>,
     map_args |-> IF b.ok THEN batch(b.val) ELSE <<>>,
     results |-> SendBatchResults(b)]

\* batch is invoked only on an Ok message, once on the whole vector.
CountBatchCall(calls, b) ==
    IF b.ok THEN [h \in DOMAIN calls |->
                    calls[h] + Cardinality({i \in DOMAIN b.val : b.val[i] = h})]
    ELSE calls

\* ------------------------------------------------------------- channels
\* Mutant of TxBClosed: a clone of tx_b outlives the extract jobs.
TxBNeverClosed == FALSE

\* Every clone of tx_b is gone: all extract jobs have run to their end.
TxBClosed == \A i \in DOMAIN task : task[i].st = "done"

\* Every clone of tx_c is gone.
TxCClosed ==
    IF opts.order_output THEN reorder.pc = "done"
    ELSE \A w \in DOMAIN bworker : bworker[w].pc = "done"

Running == {i \in DOMAIN task : task[i].st = "run"}
Queued == {i \in DOMAIN task : task[i].st = "queued"}

\* ------------------------------------------------------------- idle halves
\* No filter file (and no bytes), no loader call and no create_filter run; no
\* function call.
NoBytes == [valid |-> FALSE, table |-> <<>>, set |-> {}]
NoFile == [exists |-> FALSE, bytes |-> NoBytes]
NoBuilds == [pc |-> "idle"]
NoCall == [fn |-> "none"]

\* While the engine alone runs there is no UTXO parser, and conversely.
UtxoIdle ==
    /\ chain = <<>>
    /\ use_filter = FALSE
    /\ phase = "idle"
    /\ build_filter = {}
    /\ built = 0
    /\ filter = [some |-> FALSE, set |-> {}]
    /\ amounts = {}
    /\ stage1 = 0
    /\ stage2 = 0
    /\ blocks = <<>>
    /\ panicked = FALSE

LoaderIdle == builds = NoBuilds /\ file = NoFile

CallIdle == call = NoCall

EngineIdle ==
    /\ opts = DefaultOptions
    /\ headers = <<>>
    /\ task = <<>>
    /\ chan_b = <<>>
    /\ reorder = [pc |-> "none", current_index |-> 0, unordered |-> {}, results |-> <<>>]
    /\ bworker = <<>>
    /\ chan_c = <<>>
    /\ rx_c_dropped = FALSE
    /\ out = <<>>
    /\ batch_calls = <<>>
    /\ batch_log = <<>>

\* ------------------------------------------------------------- Init
InitTasks(hs, o) ==
    LET batched == Batched(hs, o.batch_size)
    IN  [i \in 0..(Len(batched) - 1) |->
            [st |-> "queued", headers |-> batched[i + 1], batch_b |-> <<>>]]

HeaderSeqs ==
    UNION {{[i \in 1..n |-> [id |-> i, ok |-> okf[i]]] :
                okf \in {f \in [1..n -> BOOLEAN] :
                            Cardinality({i \in 1..n : ~f[i]}) <= MaxCorrupt}}
           : n \in 0..MaxHeaders}

EngineInit ==
    /\ opts \in OptionsSet
    /\ headers \in HeaderSeqs
    /\ task = InitTasks(headers, opts)
    /\ chan_b = <<>>
    /\ reorder = [pc |-> IF opts.order_output THEN "recv" ELSE "none",
                  current_index |-> 0, unordered |-> {}, results |-> <<>>]
    /\ bworker = [w \in 1..(IF opts.order_output THEN 0 ELSE opts.num_threads) |->
                    [pc |-> "recv", results |-> <<>>]]
    /\ chan_c = <<>>
    /\ rx_c_dropped = FALSE
    /\ out = <<>>
    /\ batch_calls = [h \in 1..Len(headers) |-> 0]
    /\ batch_log = <<>>
    /\ UtxoIdle
    /\ LoaderIdle
    /\ CallIdle

\* ------------------------------------------------------------- extract pool
\* A pool thread takes the next job off the pool's FIFO queue.
ExtractStart(i) ==
    /\ task[i].st = "queued"
    /\ \A j \in Queued : i <= j
    /\ Cardinality(Running) < opts.num_threads
    /\ task' = [task EXCEPT ![i].st = "run"]
    /\ UNCHANGED <<utxoVars, opts, headers, chan_b, reorder, bworker, chan_c,
                   rx_c_dropped, out, batch_calls, batch_log>>

\* Ok(block) => batch_b.extend(parser.extract(block))
ExtractOk(i) ==
    /\ task[i].st = "run"
    /\ task[i].headers /= <<>>
    /\ LET r == parse_block(Head(task[i].headers))
       IN  /\ r.ok
           /\ task' = [task EXCEPT ![i].headers = Tail(@),
                                   ![i].batch_b = @ \o extract(r.val)]
    /\ UNCHANGED <<utxoVars, opts, headers, chan_b, reorder, bworker, chan_c,
                   rx_c_dropped, out, batch_calls, batch_log>>

\* Err(e) => tx_b.send((index, Err(e))), a blocking send on the bounded channel
ExtractErr(i) ==
    /\ task[i].st = "run"
    /\ task[i].headers /= <<>>
    /\ LET r == parse_block(Head(task[i].headers))
       IN  /\ ~r.ok
           /\ Len(chan_b) < opts.channel_buffer_size
           /\ chan_b' = Append(chan_b, [index |-> i, res |-> ErrVec(r.err)])
           /\ task' = [task EXCEPT ![i].headers = Tail(@)]
    /\ UNCHANGED <<utxoVars, opts, headers, reorder, bworker, chan_c,
                   rx_c_dropped, out, batch_calls, batch_log>>

\* Mutant of ExtractSend: the intermediate channel is unbounded.
ExtractSendUnbounded(i) ==
    /\ task[i].st = "run"
    /\ task[i].headers = <<>>
    /\ chan_b' = Append(chan_b, [index |-> i, res |-> OkVec(task[i].batch_b)])
    /\ task' = [task EXCEPT ![i].st = "done", ![i].batch_b = <<>>]
    /\ UNCHANGED <<utxoVars, opts, headers, reorder, bworker, chan_c,
                   rx_c_dropped, out, batch_calls, batch_log>>

\* tx_b.send((index, Ok(batch_b))) after the loop; the job ends
ExtractSend(i) ==
    /\ task[i].st = "run"
    /\ task[i].headers = <<>>
    /\ Len(chan_b) < opts.channel_buffer_size
    /\ chan_b' = Append(chan_b, [index |-> i, res |-> OkVec(task[i].batch_b)])
    /\ task' = [task EXCEPT ![i].st = "done", ![i].batch_b = <<>>]
    /\ UNCHANGED <<utxoVars, opts, headers, reorder, bworker, chan_c,
                   rx_c_dropped, out, batch_calls, batch_log>>

\* ------------------------------------------------------------- ordered mode
\* unordered.insert(index, b): a later message of the same index replaces it.
MapInsert(m, index, b) == {p \in m : p[1] /= index} \cup {<<index, b>>}
MapHas(m, index) == \E p \in m : p[1] = index
MapGet(m, index) == (CHOOSE p \in m : p[1] = index)[2]
MapRemove(m, index) == {p \in m : p[1] /= index}

\* for (index, b) in rx_b { unordered.insert(index, b); ...
ReorderRecv ==
    /\ reorder.pc = "recv"
    /\ chan_b /= <<>>
    /\ reorder' = [reorder EXCEPT
                     !.unordered = MapInsert(@, Head(chan_b).index, Head(chan_b).res),
                     !.pc = "drain"]
    /\ chan_b' = Tail(chan_b)
    /\ UNCHANGED <<utxoVars, opts, headers, task, bworker, chan_c, rx_c_dropped, out,
                   batch_calls, batch_log>>

\* Mutant of ReorderDrain: the lowest buffered index is released, expected or not.
ReorderDrainAnyIndex ==
    /\ reorder.pc = "drain"
    /\ IF reorder.unordered /= {}
       THEN LET index == CHOOSE k \in {p[1] : p \in reorder.unordered} :
                            \A p \in reorder.unordered : k <= p[1]
                ordered == MapGet(reorder.unordered, index)
                results == SendBatchResults(ordered)
            IN  /\ reorder' = [reorder EXCEPT
                                 !.unordered = MapRemove(@, index),
                                 !.current_index = @ + 1,
                                 !.results = results,
                                 !.pc = IF results = <<>> THEN "drain" ELSE "send"]
                /\ batch_calls' = CountBatchCall(batch_calls, ordered)
                /\ batch_log' = Append(batch_log, SendBatchCalls(index, ordered))
       ELSE /\ reorder' = [reorder EXCEPT !.pc = "recv"]
            /\ UNCHANGED <<batch_calls, batch_log>>
    /\ UNCHANGED <<utxoVars, opts, headers, task, chan_b, bworker, chan_c, rx_c_dropped, out>>

\* Mutant of ReorderDrain: the batch is read from the buffer and left in it.
ReorderDrainKeepsEntry ==
    /\ reorder.pc = "drain"
    /\ IF MapHas(reorder.unordered, reorder.current_index)
       THEN LET ordered == MapGet(reorder.unordered, reorder.current_index)
                results == SendBatchResults(ordered)
            IN  /\ reorder' = [reorder EXCEPT
                                 !.current_index = @ + 1,
                                 !.results = results,
                                 !.pc = IF results = <<>> THEN "drain" ELSE "send"]
                /\ batch_calls' = CountBatchCall(batch_calls, ordered)
                /\ batch_log' = Append(batch_log, SendBatchCalls(reorder.current_index, ordered))
       ELSE /\ reorder' = [reorder EXCEPT !.pc = "recv"]
            /\ UNCHANGED <<batch_calls, batch_log>>
    /\ UNCHANGED <<utxoVars, opts, headers, task, chan_b, bworker, chan_c, rx_c_dropped, out>>

\* while let Some(ordered) = unordered.remove(&current_index) { current_index += 1; ...
ReorderDrain ==
    /\ reorder.pc = "drain"
    /\ IF MapHas(reorder.unordered, reorder.current_index)
       THEN LET ordered == MapGet(reorder.unordered, reorder.current_index)
                results == SendBatchResults(ordered)
            IN  /\ reorder' = [reorder EXCEPT
                                 !.unordered = MapRemove(@, reorder.current_index),
                                 !.current_index = @ + 1,
                                 !.results = results,
                                 !.pc = IF results = <<>> THEN "drain" ELSE "send"]
                /\ batch_calls' = CountBatchCall(batch_calls, ordered)
                /\ batch_log' = Append(batch_log, SendBatchCalls(reorder.current_index, ordered))
       ELSE /\ reorder' = [reorder EXCEPT !.pc = "recv"]
            /\ UNCHANGED <<batch_calls, batch_log>>
    /\ UNCHANGED <<utxoVars, opts, headers, task, chan_b, bworker, chan_c, rx_c_dropped, out>>

\* Mutant of ReorderSend: a send on the dropped channel waits instead of failing.
ReorderSendBlocksOnDrop ==
    /\ reorder.pc = "send"
    /\ ~rx_c_dropped
    /\ Len(chan_c) < opts.channel_buffer_size
    /\ chan_c' = Append(chan_c, Head(reorder.results))
    /\ reorder' = [reorder EXCEPT
                     !.results = Tail(@),
                     !.pc = IF Tail(reorder.results) = <<>> THEN "drain" ELSE "send"]
    /\ UNCHANGED <<utxoVars, opts, headers, task, chan_b, bworker, rx_c_dropped, out,
                   batch_calls, batch_log>>

\* send_batch: for result in results { let _ = tx_c.send(result); }
ReorderSend ==
    /\ reorder.pc = "send"
    /\ IF rx_c_dropped
       THEN UNCHANGED chan_c
       ELSE /\ Len(chan_c) < opts.channel_buffer_size
            /\ chan_c' = Append(chan_c, Head(reorder.results))
    /\ reorder' = [reorder EXCEPT
                     !.results = Tail(@),
                     !.pc = IF Tail(reorder.results) = <<>> THEN "drain" ELSE "send"]
    /\ UNCHANGED <<utxoVars, opts, headers, task, chan_b, bworker, rx_c_dropped, out,
                   batch_calls, batch_log>>

\* the iteration over rx_b ends: channel empty and every tx_b dropped
ReorderExit ==
    /\ reorder.pc = "recv"
    /\ chan_b = <<>>
    /\ TxBClosed
    /\ reorder' = [reorder EXCEPT !.pc = "done"]
    /\ UNCHANGED <<utxoVars, opts, headers, task, chan_b, bworker, chan_c, rx_c_dropped,
                   out, batch_calls, batch_log>>

\* ------------------------------------------------------------- unordered mode
\* for (_, batch) in rx_b { parser.send_batch(&tx_c, batch, map.clone()); }
BatchRecv(w) ==
    /\ bworker[w].pc = "recv"
    /\ chan_b /= <<>>
    /\ LET results == SendBatchResults(Head(chan_b).res)
       IN  bworker' = [bworker EXCEPT
                         ![w].results = results,
                         ![w].pc = IF results = <<>> THEN "recv" ELSE "send"]
    /\ batch_calls' = CountBatchCall(batch_calls, Head(chan_b).res)
    /\ chan_b' = Tail(chan_b)
    /\ UNCHANGED <<utxoVars, opts, headers, task, reorder, chan_c, rx_c_dropped, out,
                   batch_log>>

BatchSend(w) ==
    /\ bworker[w].pc = "send"
    /\ IF rx_c_dropped
       THEN UNCHANGED chan_c
       ELSE /\ Len(chan_c) < opts.channel_buffer_size
            /\ chan_c' = Append(chan_c, Head(bworker[w].results))
    /\ bworker' = [bworker EXCEPT
                     ![w].results = Tail(@),
                     ![w].pc = IF Tail(bworker[w].results) = <<>> THEN "recv" ELSE "send"]
    /\ UNCHANGED <<utxoVars, opts, headers, task, chan_b, reorder, rx_c_dropped, out,
                   batch_calls, batch_log>>

BatchExit(w) ==
    /\ bworker[w].pc = "recv"
    /\ chan_b = <<>>
    /\ TxBClosed
    /\ bworker' = [bworker EXCEPT ![w].pc = "done"]
    /\ UNCHANGED <<utxoVars, opts, headers, task, chan_b, reorder, chan_c, rx_c_dropped,
                   out, batch_calls, batch_log>>

\* ------------------------------------------------------------- consumer
\* the caller's loop over the returned Receiver takes the next item
Receive ==
    /\ ~rx_c_dropped
    /\ chan_c /= <<>>
    /\ out' = Append(out, Head(chan_c))
    /\ chan_c' = Tail(chan_c)
    /\ UNCHANGED <<utxoVars, opts, headers, task, chan_b, reorder, bworker, rx_c_dropped,
                   batch_calls, batch_log>>

\* the caller drops the Receiver: buffered items are discarded, sends fail
DropStream ==
    /\ ~rx_c_dropped
    /\ rx_c_dropped' = TRUE
    /\ chan_c' = <<>>
    /\ UNCHANGED <<utxoVars, opts, headers, task, chan_b, reorder, bworker, out, batch_calls, batch_log>>

\* ------------------------------------------------------------- specification
Init == EngineInit

Next ==
    \/ \E i \in DOMAIN task : ExtractStart(i)
    \/ \E i \in DOMAIN task : ExtractOk(i)
    \/ \E i \in DOMAIN task : ExtractErr(i)
    \/ \E i \in DOMAIN task : ExtractSend(i)
    \/ ReorderRecv
    \/ ReorderDrain
    \/ ReorderSend
    \/ ReorderExit
    \/ \E w \in DOMAIN bworker : BatchRecv(w)
    \/ \E w \in DOMAIN bworker : BatchSend(w)
    \/ \E w \in DOMAIN bworker : BatchExit(w)
    \/ Receive
    \/ DropStream

Spec == Init /\ [][Next]_vars

\* The consumer's loop has seen the end of the stream.
StreamEnded == ~rx_c_dropped /\ chan_c = <<>> /\ TxCClosed

EngineTypeOK ==
    /\ Len(chan_b) <= opts.channel_buffer_size
    /\ Len(chan_c) <= opts.channel_buffer_size
    /\ Cardinality(Running) <= opts.num_threads

\* ============================================================= engine properties
AllDecode == \A i \in DOMAIN headers : headers[i].ok

\* Number of Ok items carrying block h / of error items of block h in a sequence.
CountOk(s, h) == Cardinality({i \in DOMAIN s : s[i].ok /\ s[i].val = h})
CountErr(s, h) == Cardinality({i \in DOMAIN s : ~s[i].ok /\ s[i].err = h})

OkValues(s) ==
    LET oks == SelectSeq(s, LAMBDA x : x.ok) IN [i \in 1..Len(oks) |-> oks[i].val]

Increasing(s) == \A i, j \in DOMAIN s : i < j => s[i] < s[j]

\* Every extract job and every reorder/batch worker has ended.
WorkersDone == TxBClosed /\ TxCClosed

\* C1: in ordered mode, when every block decodes, the i-th item the consumer receives
\* is Ok(block of the i-th descriptor), under every option value and interleaving.
C1_OrderedOutput ==
    (opts.order_output /\ AllDecode) =>
        \A i \in DOMAIN out : out[i] = Ok(headers[i].id)

\* C1 witness: batches arrived out of order (one waits in the reorder buffer) while
\* blocks have already been received in order.
C1_Witness ==
    /\ opts.order_output /\ AllDecode
    /\ reorder.unordered /= {}
    /\ Len(out) >= 2

\* C2: when every block decodes, ordered or not, the stream carries no error item,
\* no block is received twice or passed to batch twice, and when the stream ends
\* every block of H was passed to batch once and received once.
C2_CountPreserved ==
    AllDecode =>
        /\ \A i \in DOMAIN out : out[i].ok
        /\ \A h \in DOMAIN headers : CountOk(out, h) <= 1 /\ batch_calls[h] <= 1
        /\ StreamEnded =>
              /\ Len(out) = Len(headers)
              /\ \A h \in DOMAIN headers : CountOk(out, h) = 1 /\ batch_calls[h] = 1

\* C2 witness: an unordered run over at least three blocks ended, and the consumer
\* received them in another order than H.
C2_Witness ==
    /\ ~opts.order_output /\ AllDecode /\ StreamEnded
    /\ Len(headers) >= 3
    /\ Len(out) = Len(headers)
    /\ out[1].val /= 1

\* C3: every block whose decode fails surfaces as exactly one error item: never
\* more than one, and exactly one once the stream has ended.
C3_EachFailureOnce ==
    \A h \in DOMAIN headers :
        ~headers[h].ok =>
            /\ CountErr(out, h) <= 1
            /\ StreamEnded => CountErr(out, h) = 1

\* C4: a decode failure aborts neither its batch nor the engine: every block that
\* decodes is passed to batch exactly once and received as one Ok item once the
\* stream has ended, and in ordered mode the Ok items are in descriptor order.
C4_SurvivorsEmitted ==
    /\ \A h \in DOMAIN headers :
          headers[h].ok =>
              /\ batch_calls[h] <= 1 /\ CountOk(out, h) <= 1
              /\ StreamEnded => (batch_calls[h] = 1 /\ CountOk(out, h) = 1)
    /\ opts.order_output => Increasing(OkValues(out))

\* Blocks decoded and not yet received by the consumer, by where they are held.
RECURSIVE SumLens(_)
SumLens(S) ==
    IF S = {} THEN 0
    ELSE LET p == CHOOSE q \in S : TRUE IN Len(p[2].val) + SumLens(S \ {p})

RECURSIVE SumOver(_, _)
SumOver(f, S) ==
    IF S = {} THEN 0
    ELSE LET x == CHOOSE y \in S : TRUE IN f[x] + SumOver(f, S \ {x})

CountOks(s) == Cardinality({i \in DOMAIN s : s[i].ok})

LiveInExtract == SumOver([i \in DOMAIN task |-> Len(task[i].batch_b)], DOMAIN task)
LiveInChanB == SeqSum([i \in 1..Len(chan_b) |-> Len(chan_b[i].res.val)])
LiveInBuffer == SumLens(reorder.unordered)
LiveInReorder == CountOks(reorder.results)
LiveInBatch ==
    SumOver([w \in DOMAIN bworker |-> CountOks(bworker[w].results)], DOMAIN bworker)
LiveInChanC == CountOks(chan_c)

LiveBlocks ==
    LiveInExtract + LiveInChanB + LiveInBuffer + LiveInReorder + LiveInBatch
        + LiveInChanC

\* C9 as stated: live blocks never exceed
\* num_threads * batch_size + channel_buffer_size * batch_size.
C9_LiveBound ==
    LiveBlocks <= opts.num_threads * opts.batch_size
                    + opts.channel_buffer_size * opts.batch_size

\* C9 amended: in unordered mode the batch pool holds num_threads more batches and
\* the output channel channel_buffer_size more items; in ordered mode the reorder
\* thread holds one batch, and the blocks outside the reorder buffer are bounded
\* (the buffer itself is bounded by |H| only).
C9_LiveBoundAmended ==
    IF opts.order_output
    THEN LiveBlocks - LiveInBuffer <=
            (opts.num_threads + opts.channel_buffer_size + 1) * opts.batch_size
                + opts.channel_buffer_size
    ELSE LiveBlocks <=
            (2 * opts.num_threads + opts.channel_buffer_size) * opts.batch_size
                + opts.channel_buffer_size

\* C9 witness: an unordered run in which the amended bound is attained.
C9_Witness ==
    /\ ~opts.order_output
    /\ LiveBlocks = (2 * opts.num_threads + opts.channel_buffer_size) * opts.batch_size
                        + opts.channel_buffer_size

\* Scheduling: a thread that can take a step eventually takes one; the consumer is
\* not obliged to drop the stream.
Work ==
    \/ \E i \in DOMAIN task : ExtractStart(i) \/ ExtractOk(i) \/ ExtractErr(i) \/ ExtractSend(i)
    \/ ReorderRecv \/ ReorderDrain \/ ReorderSend \/ ReorderExit
    \/ \E w \in DOMAIN bworker : BatchRecv(w) \/ BatchSend(w) \/ BatchExit(w)
    \/ Receive

\* The fair runs are checked over the headers of at most MaxFairHeaders descriptors.
FairInit == EngineInit /\ Len(headers) <= MaxFairHeaders

FairSpec == FairInit /\ [][Next]_vars /\ WF_vars(Work)

\* C10: if the consumer keeps receiving (never drops the stream), every extract job
\* and every reorder/batch worker eventually ends and the stream closes empty.
C10_Terminates == <>(rx_c_dropped \/ (WorkersDone /\ chan_c = <<>>))

\* C10 witness: a run with one thread and a channel of one slot, over at least three
\* blocks one of which fails to decode, has ended with the stream closed.
C10_Witness ==
    /\ StreamEnded /\ WorkersDone
    /\ opts.num_threads = 1 /\ opts.channel_buffer_size = 1
    /\ Len(headers) >= 3 /\ ~AllDecode

\* C11: once the consumer has dropped the output stream nothing is buffered or
\* delivered any more (every later send fails silently and its worker goes on), and
\* every extract job and every reorder/batch worker eventually ends: none stays
\* blocked on a channel send or receive.
C11_DropDrains ==
    /\ [](rx_c_dropped => chan_c = <<>>)
    /\ [][rx_c_dropped => out' = out]_vars
    /\ (rx_c_dropped ~> WorkersDone)

\* C11 witness: the consumer dropped the stream before receiving anything, over a
\* channel of one slot; all three blocks were still decoded and passed to batch (so
\* at least two sends failed), and every worker has ended.
C11_Witness ==
    /\ rx_c_dropped /\ WorkersDone
    /\ out = <<>>
    /\ opts.channel_buffer_size = 1
    /\ Len(headers) = MaxFairHeaders /\ AllDecode
    /\ \A h \in DOMAIN headers : batch_calls[h] = 1

\* The invocations of batch among the reorder thread's send_batch invocations.
BatchInvocations == SelectSeq(batch_log, LAMBDA e : e.batch_args /= <<>>)

\* The items of the latest send_batch invocation the reorder thread still has to send.
IsSuffix(s, t) == Len(s) <= Len(t) /\ s = SubSeq(t, Len(t) - Len(s) + 1, Len(t))

\* C17: in ordered mode batch is invoked by the reorder thread alone, the k-th
\* invocation is on batch index k - 1 (increasing from 0, none skipped or repeated),
\* the only items in flight are those of the latest invocation, and when the workers
\* have ended batch was invoked on every batch index.
C17_BatchInOrder ==
    opts.order_output =>
        /\ bworker = <<>>
        /\ \A k \in DOMAIN BatchInvocations : BatchInvocations[k].index = k - 1
        /\ reorder.results /= <<>> =>
              /\ batch_log /= <<>>
              /\ IsSuffix(reorder.results, batch_log[Len(batch_log)].results)
        /\ WorkersDone => Len(BatchInvocations) = Cardinality(DOMAIN task)

\* The batch index of the h-th descriptor, and what batch returns for batch i: the
\* extract results of its blocks that decode, in descriptor order.
BatchIndexOf(h) == (h - 1) \div opts.batch_size

Returned(i) ==
    LET hs == SelectSeq(Batched(headers, opts.batch_size)[i + 1], LAMBDA hd : hd.ok)
    IN  batch([k \in 1..Len(hs) |-> hs[k].id])

\* The Ok items of batch i in a sequence of output items, in their order there.
ItemsOfBatch(s, i) ==
    LET its == SelectSeq(s, LAMBDA x : x.ok /\ BatchIndexOf(x.val) = i)
    IN  [k \in 1..Len(its) |-> its[k].val]

IsPrefix(s, t) == Len(s) <= Len(t) /\ s = SubSeq(t, 1, Len(s))

\* C18: in unordered mode the items of any one batch reach the consumer in the order
\* batch returned them (those received so far are a prefix of what batch returned,
\* and all of it once the stream has ended), however batches interleave.
C18_BatchOrderKept ==
    ~opts.order_output =>
        \A i \in DOMAIN task :
            /\ IsPrefix(ItemsOfBatch(out, i), Returned(i))
            /\ StreamEnded => ItemsOfBatch(out, i) = Returned(i)

\* C18 witness: an unordered run ended in which an item of another batch was received
\* between the two items of one batch.
C18_Witness ==
    /\ ~opts.order_output /\ StreamEnded
    /\ opts.batch_size = 2
    /\ \E p, q, r \in DOMAIN out :
          /\ p < q /\ q < r
          /\ out[p].ok /\ out[q].ok /\ out[r].ok
          /\ BatchIndexOf(out[p].val) = BatchIndexOf(out[r].val)
          /\ BatchIndexOf(out[q].val) /= BatchIndexOf(out[p].val)

\* The concatenation of a sequence of batches in index order.
RECURSIVE Concat(_)
Concat(ss) == IF ss = <<>> THEN <<>> ELSE Head(ss) \o Concat(Tail(ss))

\* C19: the batches parse_with_opts builds concatenate to H in index order, every
\* batch but the last holds exactly batch_size descriptors, the last holds between 1
\* and batch_size, and there is one decode task per batch: none for an empty batch.
C19_NoEmptyBatch ==
    LET batched == Batched(headers, opts.batch_size)
        n == Len(batched)
    IN  /\ Concat(batched) = headers
        /\ \A i \in 1..(n - 1) : Len(batched[i]) = opts.batch_size
        /\ n >= 1 => Len(batched[n]) \in 1..opts.batch_size
        /\ DOMAIN task = 0..(n - 1)

\* What the claim expects of one send_batch invocation recorded as e.
SendBatchAsClaimed(e) ==
    IF e.msg.ok
    THEN /\ e.batch_args = <<e.msg.val>>
         /\ e.map_args = batch(e.msg.val)
         /\ Len(e.results) = Len(e.map_args)
         /\ \A k \in DOMAIN e.results : e.results[k] = Ok(map(e.map_args[k]))
    ELSE /\ e.batch_args = <<>>
         /\ e.map_args = <<>>
         /\ e.results = <<Err(e.msg.err)>>

\* A step in which a batch worker takes a message off rx_b and runs send_batch on it.
BatchWorkerTakes == ~opts.order_output /\ chan_b /= <<>> /\ chan_b' = Tail(chan_b)

\* C20: send_batch passes no failure to batch or map. An error message yields that
\* one error item and no call (no block is counted as batched); an Ok message yields
\* one batch call on its whole vector and one mapped item per item batch returned, in
\* order. Every error item in the stream is the failure of a block that did not
\* decode, and such a block is never passed to batch.
C20_SendBatch ==
    /\ [](\A k \in DOMAIN batch_log : SendBatchAsClaimed(batch_log[k]))
    /\ [][BatchWorkerTakes =>
            \E w \in DOMAIN bworker :
                /\ bworker[w].pc = "recv"
                /\ IF Head(chan_b).res.ok
                   THEN /\ bworker'[w].results =
                              [k \in 1..Len(Head(chan_b).res.val) |->
                                  Ok(Head(chan_b).res.val[k])]
                        /\ \A h \in DOMAIN headers :
                              batch_calls'[h] = batch_calls[h] +
                                  (IF \E k \in DOMAIN Head(chan_b).res.val :
                                          Head(chan_b).res.val[k] = h
                                   THEN 1 ELSE 0)
                   ELSE /\ bworker'[w].results = <<Err(Head(chan_b).res.err)>>
                        /\ batch_calls' = batch_calls]_vars
    /\ [](\A i \in DOMAIN out : ~out[i].ok =>
              (out[i].err \in DOMAIN headers /\ ~headers[out[i].err].ok))
    /\ [](\A h \in DOMAIN headers : ~headers[h].ok => batch_calls[h] = 0)

\* C20 witness: the reorder thread ran send_batch on an error message and on an Ok
\* message of two blocks, and the consumer received the error item and both blocks.
C20_Witness ==
    /\ \E k \in DOMAIN batch_log : ~batch_log[k].msg.ok
    /\ \E k \in DOMAIN batch_log : batch_log[k].msg.ok /\ Len(batch_log[k].msg.val) = 2
    /\ \E i \in DOMAIN out : ~out[i].ok
    /\ CountOks(out) >= 2

\* The items the reorder thread has passed to map, in the order of the calls: in a
\* filter build (an ordered parse whose map is filter.update) the blocks whose
\* operations have been applied to the filter, in the order they were applied.
MapCalls == Concat([k \in 1..Len(batch_log) |-> batch_log[k].map_args])

\* The blocks of the range that decode, in blockchain order.
DecodedBlocks ==
    LET hs == SelectSeq(headers, LAMBDA hd : hd.ok)
    IN  [k \in 1..Len(hs) |-> hs[k].id]

Forwarded(i) == Cardinality({k \in DOMAIN batch_log : batch_log[k].index = i})

\* C26: in ordered mode with no decode failure, the reorder buffer never holds an
\* index below the next expected one, and not the next expected one either once
\* the drain loop has run; every index below the next expected one was forwarded
\* exactly once and no other index was forwarded; when the intermediate channel
\* has closed and the thread has left its loop the buffer is empty.
C26_ReorderBuffer ==
    (opts.order_output /\ AllDecode) =>
        /\ \A p \in reorder.unordered : p[1] >= reorder.current_index
        /\ reorder.pc \in {"recv", "done"} =>
              \A p \in reorder.unordered : p[1] > reorder.current_index
        /\ \A i \in DOMAIN task :
              Forwarded(i) = IF i < reorder.current_index THEN 1 ELSE 0
        /\ reorder.pc = "done" =>
              /\ reorder.unordered = {}
              /\ reorder.current_index = Cardinality(DOMAIN task)

\* C26 witness: after the reorder thread has forwarded batch 0 and finished its
\* drain loop, a later batch waits in the buffer above the next expected index.
C26_Witness ==
    /\ opts.order_output /\ AllDecode
    /\ reorder.pc = "recv"
    /\ reorder.current_index >= 1
    /\ Forwarded(0) = 1
    /\ \E p \in reorder.unordered : p[1] > reorder.current_index /\ p[2].val /= <<>>

\* ============================================================= UTXO tracking
\* ------------------------------------------------------------- data model
\* A Txid is 32 bytes: the 12 bytes a ShortOutPoint keeps and the 20 it drops.
MkTxid(t) == [head12 |-> t, tail20 |-> t]

\* An output index (u32 vout, usize index) as its little-endian bytes: bytes 0..2
\* (lo, a 16-bit number) and the bytes above them (hi).
Index(n) == [lo |-> n % 65536, hi |-> n \div 65536]

\* OutPoint::null(): the all-zero txid and vout = u32::MAX = 0xFFFF_FFFF.
NullOutPoint == [txid |-> [head12 |-> 0, tail20 |-> 0],
                 vout |-> [lo |-> 65535, hi |-> 65535]]

\* Transaction::is_coinbase: one input, whose previous_output is null.
is_coinbase(tx) == Len(tx.input) = 1 /\ tx.input[1].previous_output = NullOutPoint

\* Mutant of ShortOutPointNew: the key is the txid prefix alone.
ShortOutPointNewNoIndex(vout, txid) == <<0, txid.head12>>

\* ShortOutPoint::new: vout.to_le_bytes()[0..2] then txid.as_byte_array()[0..12]
ShortOutPointNew(vout, txid) == <<vout.lo, txid.head12>>

\* ShortOutPoint::from_outpoint
from_outpoint(outpoint) == ShortOutPointNew(outpoint.vout, outpoint.txid)

\* Iterator::zip: pairs up to the length of the shorter sequence
Zip(a, b) ==
    [i \in 1..(IF Len(a) <= Len(b) THEN Len(a) ELSE Len(b)) |-> <<a[i], b[i]>>]

\* UtxoTransaction::input and UtxoTransaction::output
input(utx) == Zip(utx.transaction.input, utx.inputs)
output(utx) == Zip(utx.transaction.output, utx.outputs)

\* UtxoTransaction::new / UtxoBlock::new: empty inputs and outputs vectors
UtxoTransactionNew(tx) ==
    [transaction |-> tx, txid |-> tx.txid, inputs |-> <<>>, outputs |-> <<>>]

UtxoBlockNew(block) ==
    [header |-> block.header,
     txdata |-> [k \in 1..Len(block.txdata) |-> UtxoTransactionNew(block.txdata[k])]]

\* ------------------------------------------------------------- well-formed chains
\* The value of output i of the t-th transaction of the chain: all distinct.
ValueOf(t, i) == 10 * t + i

TxOutputs(t, nout) == [i \in 1..nout |-> [value |-> ValueOf(t, i)]]

\* The outpoints a transaction creates (vout counts from 0).
CreatedBy(tx) == {[txid |-> tx.txid, vout |-> Index(i - 1)] : i \in 1..Len(tx.output)}

SpentBy(tx) ==
    {tx.input[i].previous_output : i \in 1..Len(tx.input)} \ {NullOutPoint}

CoinbaseTxs(t) ==
    {[txid |-> MkTxid(t), input |-> <<[previous_output |-> NullOutPoint]>>,
      output |-> TxOutputs(t, nout)] : nout \in 1..MaxOutputs}

\* Sequences of 1..MaxInputs distinct outpoints taken from avail.
InputSeqs(avail) ==
    UNION {{s \in [1..k -> avail] : \A i, j \in 1..k : i /= j => s[i] /= s[j]}
           : k \in 1..MaxInputs}

SpendTxs(avail, t) ==
    {[txid |-> MkTxid(t),
      input |-> [i \in 1..Len(ins) |-> [previous_output |-> ins[i]]],
      output |-> TxOutputs(t, nout)] : ins \in InputSeqs(avail), nout \in 1..MaxOutputs}

\* Up to k spending transactions, each consuming outputs that exist and are unspent.
RECURSIVE SpendSeqs(_, _, _)
SpendSeqs(avail, t, k) ==
    IF k = 0 THEN {<<>>}
    ELSE {<<>>} \cup
         UNION {{<<tx>> \o rest :
                    rest \in SpendSeqs((avail \ SpentBy(tx)) \cup CreatedBy(tx), t + 1, k - 1)}
                : tx \in SpendTxs(avail, t)}

BlocksAfter(avail, t) ==
    UNION {{[header |-> t, txdata |-> <<cb>> \o sp] :
                sp \in SpendSeqs(avail \cup CreatedBy(cb), t + 1, MaxSpends)}
           : cb \in CoinbaseTxs(t)}

BlockCreated(block) == UNION {CreatedBy(block.txdata[k]) : k \in 1..Len(block.txdata)}
BlockSpent(block) == UNION {SpentBy(block.txdata[k]) : k \in 1..Len(block.txdata)}

\* The outpoints created and the outpoints consumed in blocks 1..k of c.
CreatedUpTo(c, k) == UNION {BlockCreated(c[h]) : h \in 1..k}
SpentUpTo(c, k) == UNION {BlockSpent(c[h]) : h \in 1..k}

RECURSIVE TxCount(_)
TxCount(c) == IF c = <<>> THEN 0 ELSE Len(Head(c).txdata) + TxCount(Tail(c))

\* The blocks that extend c to a longer well-formed chain: every input references an
\* output created in an earlier block or earlier in the same block, not yet spent.
NextBlocks(c) ==
    BlocksAfter(CreatedUpTo(c, Len(c)) \ SpentUpTo(c, Len(c)), TxCount(c) + 1)

\* ------------------------------------------------------------- filter builder
\* scalable cuckoo filter, without false positives: a set of keys
FilterInsert(f, key) == f \cup {key}
FilterRemove(f, key) == f \ {key}
FilterContains(f, key) == key \in f

\* UtxoFilter::outpoints: (inputs, outputs) of a block as ShortOutPoints
RECURSIVE OutpointsLoop(_, _, _, _)
OutpointsLoop(txdata, k, inputs, outputs) ==
    IF k > Len(txdata) THEN <<inputs, outputs>>
    ELSE LET tx == txdata[k]
             txid == tx.txid
             ins == [i \in 1..Len(tx.input) |-> from_outpoint(tx.input[i].previous_output)]
             outs == [i \in 1..Len(tx.output) |-> ShortOutPointNew(Index(i - 1), txid)]
         IN  OutpointsLoop(txdata, k + 1, inputs \o ins, outputs \o outs)

outpoints(block) == OutpointsLoop(block.txdata, 1, <<>>, <<>>)

RECURSIVE InsertAll(_, _)
InsertAll(f, keys) ==
    IF keys = <<>> THEN f ELSE InsertAll(FilterInsert(f, Head(keys)), Tail(keys))

RECURSIVE RemoveAll(_, _)
RemoveAll(f, keys) ==
    IF keys = <<>> THEN f ELSE RemoveAll(FilterRemove(f, Head(keys)), Tail(keys))

\* Mutant of update: the inputs are removed before the outputs are inserted.
updateRemoveFirst(f, ops) == InsertAll(RemoveAll(f, ops[1]), ops[2])

\* UtxoFilter::update: insert every output, then remove every input
update(f, ops) == RemoveAll(InsertAll(f, ops[2]), ops[1])

\* ------------------------------------------------------------- pipeline
None == [some |-> FALSE, set |-> {}]
Some(f) == [some |-> TRUE, set |-> f]

\* Mutant of status: the two filter answers are exchanged.
statusSwapped(flt, outpoint) ==
    IF ~flt.some THEN "Unknown"
    ELSE IF FilterContains(flt.set, outpoint) THEN "Spent"
    ELSE "Unspent"

\* UtxoPipeline::status
status(flt, outpoint) ==
    IF ~flt.some THEN "Unknown"
    ELSE IF FilterContains(flt.set, outpoint) THEN "Unspent"
    ELSE "Spent"

\* Mutant of FirstOutputs: only outputs marked Spent are stored.
RECURSIVE FirstOutputsOnlySpent(_, _, _, _)
FirstOutputsOnlySpent(flt, amts, tx, index) ==
    IF index >= Len(tx.transaction.output) THEN [amounts |-> amts, tx |-> tx]
    ELSE LET outpoint == ShortOutPointNew(Index(index), tx.txid)
             st == status(flt, outpoint)
             value == tx.transaction.output[index + 1].value
             inserted == IF st = "Spent" THEN MapInsert(amts, outpoint, value)
                         ELSE amts
         IN  FirstOutputsOnlySpent(flt, inserted, [tx EXCEPT !.outputs = Append(@, st)],
                                   index + 1)

\* Mutant of FirstOutputs: every output is stored, whatever its status.
RECURSIVE FirstOutputsStoreAll(_, _, _, _)
FirstOutputsStoreAll(flt, amts, tx, index) ==
    IF index >= Len(tx.transaction.output) THEN [amounts |-> amts, tx |-> tx]
    ELSE LET outpoint == ShortOutPointNew(Index(index), tx.txid)
             st == status(flt, outpoint)
             value == tx.transaction.output[index + 1].value
             inserted == MapInsert(amts, outpoint, value)
         IN  FirstOutputsStoreAll(flt, inserted, [tx EXCEPT !.outputs = Append(@, st)],
                                  index + 1)

\* Pipeline::first, the loop over one transaction's outputs (index counts from 0)
RECURSIVE FirstOutputs(_, _, _, _)
FirstOutputs(flt, amts, tx, index) ==
    IF index >= Len(tx.transaction.output) THEN [amounts |-> amts, tx |-> tx]
    ELSE LET outpoint == ShortOutPointNew(Index(index), tx.txid)
             st == status(flt, outpoint)
             value == tx.transaction.output[index + 1].value
             inserted == IF st /= "Unspent" THEN MapInsert(amts, outpoint, value)
                         ELSE amts
         IN  FirstOutputs(flt, inserted, [tx EXCEPT !.outputs = Append(@, st)], index + 1)

RECURSIVE FirstTxs(_, _, _, _)
FirstTxs(flt, amts, txdata, k) ==
    IF k > Len(txdata) THEN [amounts |-> amts, txdata |-> txdata]
    ELSE LET r == FirstOutputs(flt, amts, txdata[k], 0)
         IN  FirstTxs(flt, r.amounts, [txdata EXCEPT ![k] = r.tx], k + 1)

\* Pipeline::first
first(flt, amts, block) ==
    LET r == FirstTxs(flt, amts, block.txdata, 1)
    IN  [amounts |-> r.amounts, block |-> [block EXCEPT !.txdata = r.txdata]]

\* Mutant of SecondInputs: the coinbase branch skips the input without a push.
RECURSIVE SecondInputsSkipCoinbase(_, _, _)
SecondInputsSkipCoinbase(amts, tx, i) ==
    IF i > Len(tx.transaction.input) THEN [amounts |-> amts, tx |-> tx, panic |-> FALSE]
    ELSE IF is_coinbase(tx.transaction)
         THEN SecondInputsSkipCoinbase(amts, tx, i + 1)
         ELSE LET outpoint == from_outpoint(tx.transaction.input[i].previous_output)
              IN  IF ~MapHas(amts, outpoint)
                  THEN [amounts |-> amts, tx |-> tx, panic |-> TRUE]
                  ELSE SecondInputsSkipCoinbase(MapRemove(amts, outpoint),
                                    [tx EXCEPT !.inputs = Append(@, MapGet(amts, outpoint))],
                                    i + 1)

\* Mutant of SecondInputs: a missing entry yields amount 0 and the loop goes on.
RECURSIVE SecondInputsZeroOnMissing(_, _, _)
SecondInputsZeroOnMissing(amts, tx, i) ==
    IF i > Len(tx.transaction.input) THEN [amounts |-> amts, tx |-> tx, panic |-> FALSE]
    ELSE IF is_coinbase(tx.transaction)
         THEN SecondInputsZeroOnMissing(amts, [tx EXCEPT !.inputs = Append(@, 0)], i + 1)
         ELSE LET outpoint == from_outpoint(tx.transaction.input[i].previous_output)
              IN  IF ~MapHas(amts, outpoint)
                  THEN SecondInputsZeroOnMissing(amts, [tx EXCEPT !.inputs = Append(@, 0)],
                                                 i + 1)
                  ELSE SecondInputsZeroOnMissing(MapRemove(amts, outpoint),
                                    [tx EXCEPT !.inputs = Append(@, MapGet(amts, outpoint))],
                                    i + 1)

\* Pipeline::second, the loop over one transaction's inputs; a missing entry panics
RECURSIVE SecondInputs(_, _, _)
SecondInputs(amts, tx, i) ==
    IF i > Len(tx.transaction.input) THEN [amounts |-> amts, tx |-> tx, panic |-> FALSE]
    ELSE IF is_coinbase(tx.transaction)
         THEN SecondInputs(amts, [tx EXCEPT !.inputs = Append(@, 0)], i + 1)
         ELSE LET outpoint == from_outpoint(tx.transaction.input[i].previous_output)
              IN  IF ~MapHas(amts, outpoint)
                  THEN [amounts |-> amts, tx |-> tx, panic |-> TRUE]
                  ELSE SecondInputs(MapRemove(amts, outpoint),
                                    [tx EXCEPT !.inputs = Append(@, MapGet(amts, outpoint))],
                                    i + 1)

RECURSIVE SecondTxs(_, _, _)
SecondTxs(amts, txdata, k) ==
    IF k > Len(txdata) THEN [amounts |-> amts, txdata |-> txdata, panic |-> FALSE]
    ELSE LET r == SecondInputs(amts, txdata[k], 1)
         IN  IF r.panic
             THEN [amounts |-> r.amounts, txdata |-> [txdata EXCEPT ![k] = r.tx],
                   panic |-> TRUE]
             ELSE SecondTxs(r.amounts, [txdata EXCEPT ![k] = r.tx], k + 1)

\* Pipeline::second
second(amts, block) ==
    LET r == SecondTxs(amts, block.txdata, 1)
    IN  [amounts |-> r.amounts, block |-> [block EXCEPT !.txdata = r.txdata],
         panic |-> r.panic]

\* ------------------------------------------------------------- actions
\* The pipeline driver (the ordered two-stage streaming reducer): each stage visits
\* the blocks in blockchain order, stage two of a block after its stage one.
MayRunFirst == stage1 < Len(chain)
MayRunSecond == stage2 < stage1

UtxoInit ==
    /\ chain = <<>>
    /\ use_filter \in BOOLEAN
    /\ phase = IF use_filter THEN "build" ELSE "parse"
    /\ build_filter = {}
    /\ built = 0
    /\ filter = None
    /\ amounts = {}
    /\ stage1 = 0
    /\ stage2 = 0
    /\ blocks = <<>>
    /\ panicked = FALSE
    /\ LoaderIdle
    /\ CallIdle
    /\ EngineIdle

\* The first pass over the range decodes its next block (the range is a well-formed
\* chain from genesis); a later pass over the same range decodes the same blocks.
Decode ==
    /\ Len(chain) < MaxBlocks
    /\ \/ phase = "build" /\ built = Len(chain)
       \/ phase = "parse" /\ ~use_filter /\ stage1 = Len(chain) /\ ~panicked
    /\ \E b \in NextBlocks(chain) : chain' = Append(chain, b)
    /\ UNCHANGED <<engineVars, use_filter, phase, build_filter, built, filter, amounts,
                   stage1, stage2, blocks, panicked,
                   builds, file, call>>

\* create_filter: the ordered map applies filter.update to the next block
FilterUpdate ==
    /\ phase = "build"
    /\ built < Len(chain)
    /\ build_filter' = update(build_filter, outpoints(chain[built + 1]))
    /\ built' = built + 1
    /\ UNCHANGED <<engineVars, chain, use_filter, phase, filter, amounts, stage1,
                   stage2, blocks, panicked,
                   builds, file, call>>

\* the range is exhausted: create_filter writes the file, load_filter attaches it,
\* parse starts the pipeline over the same range
LoadFilter ==
    /\ phase = "build"
    /\ built = Len(chain)
    /\ built > 0
    /\ filter' = Some(build_filter)
    /\ phase' = "parse"
    /\ UNCHANGED <<engineVars, chain, use_filter, build_filter, built, amounts,
                   stage1, stage2, blocks, panicked,
                   builds, file, call>>

\* parse(UtxoBlock::new) then stage one of the next block, in blockchain order
StageOne ==
    /\ phase = "parse"
    /\ ~panicked
    /\ MayRunFirst
    /\ LET r == first(filter, amounts, UtxoBlockNew(chain[stage1 + 1]))
       IN  /\ amounts' = r.amounts
           /\ blocks' = Append(blocks, r.block)
    /\ stage1' = stage1 + 1
    /\ UNCHANGED <<engineVars, chain, use_filter, phase, build_filter, built, filter,
                   stage2, panicked,
                   builds, file, call>>

\* stage two of the next block, in blockchain order, after its stage one
StageTwo ==
    /\ phase = "parse"
    /\ ~panicked
    /\ MayRunSecond
    /\ LET r == second(amounts, blocks[stage2 + 1])
       IN  /\ amounts' = r.amounts
           /\ blocks' = [blocks EXCEPT ![stage2 + 1] = r.block]
           /\ panicked' = r.panic
           /\ stage2' = IF r.panic THEN stage2 ELSE stage2 + 1
    /\ UNCHANGED <<engineVars, chain, use_filter, phase, build_filter, built, filter,
                   stage1,
                   builds, file, call>>

UtxoNext == Decode \/ FilterUpdate \/ LoadFilter \/ StageOne \/ StageTwo

UtxoSpec == UtxoInit /\ [][UtxoNext]_vars

\* The UtxoBlocks the pipeline has emitted: both stages have run.
Emitted == 1..stage2

\* ============================================================= UTXO properties
\* The transactions of the range as (height, position) pairs.
TxAt == {hk \in (1..Len(chain)) \X (1..(1 + MaxSpends)) : hk[2] <= Len(chain[hk[1]].txdata)}

\* The value of the output a full outpoint references, read off the chain.
ReferencedValue(o) ==
    LET hk == CHOOSE p \in TxAt : chain[p[1]].txdata[p[2]].txid = o.txid
    IN  chain[hk[1]].txdata[hk[2]].output[o.vout.lo + 1].value

\* The full outpoint of output i (from 1) of a transaction.
OutPointOf(tx, i) == [txid |-> tx.txid, vout |-> Index(i - 1)]

\* The 14-byte key of a full outpoint.
KeyOf(o) == <<o.vout.lo, o.txid.head12>>

\* Some input of blocks lo..hi references o.
ReferencedIn(o, lo, hi) == \E h \in lo..hi : o \in BlockSpent(chain[h])

\* Output i of transaction k is created and consumed in block h.
SpentInOwnBlock(h, k, i) == OutPointOf(chain[h].txdata[k], i) \in BlockSpent(chain[h])

\* C5: on a well-formed chain from genesis, without a filter or with the filter built
\* over the same range, stage two never misses an entry, and in every emitted
\* UtxoTransaction a coinbase input carries 0 and every other input carries the
\* value of the output its previous_output references.
C5_AmountsCorrect ==
    /\ ~panicked
    /\ \A h \in Emitted : \A k \in DOMAIN blocks[h].txdata :
          LET utx == blocks[h].txdata[k]
              tx == chain[h].txdata[k]
          IN  /\ utx.transaction = tx
              /\ Len(utx.inputs) = Len(tx.input)
              /\ \A i \in DOMAIN tx.input :
                    utx.inputs[i] = IF is_coinbase(tx) THEN 0
                                    ELSE ReferencedValue(tx.input[i].previous_output)

\* C5 witness: with a filter attached, a block beyond the first was emitted whose
\* spending transaction consumed an output of an earlier block.
C5_Witness ==
    /\ use_filter /\ ~panicked
    /\ \E h \in Emitted : \E k \in DOMAIN chain[h].txdata :
          /\ h > 1
          /\ ~is_coinbase(chain[h].txdata[k])
          /\ ReferencedIn(chain[h].txdata[k].input[1].previous_output, h, h)
          /\ chain[h].txdata[k].input[1].previous_output \in CreatedUpTo(chain, h - 1)
          /\ blocks[h].txdata[k].inputs[1] > 0

AllCreatedMinusConsumed ==
    {<<KeyOf(o), ReferencedValue(o)>> :
        o \in CreatedUpTo(chain, stage1) \ SpentUpTo(chain, stage2)}

\* C7: without a filter every output status is Unknown and every created output is
\* inserted into the amount map; with a filter attached no status is Unknown.
C7_UnknownIffNoFilter ==
    /\ \A h \in 1..stage1 : \A k \in DOMAIN blocks[h].txdata :
          /\ Len(blocks[h].txdata[k].outputs) = Len(chain[h].txdata[k].output)
          /\ \A i \in DOMAIN blocks[h].txdata[k].outputs :
                (blocks[h].txdata[k].outputs[i] = "Unknown") <=> ~filter.some
    /\ (phase = "parse" /\ ~filter.some /\ ~panicked) => amounts = AllCreatedMinusConsumed

\* C7 witness: a run without a filter in which stage one is ahead of stage two and
\* the amount map holds entries.
C7_Witness ==
    /\ phase = "parse" /\ ~filter.some
    /\ stage1 >= 2 /\ stage2 >= 1 /\ stage2 < stage1
    /\ amounts /= {}

\* C8: after update has been applied to blocks 1..built in order, the filter holds
\* exactly the keys of the outpoints created and not consumed in those blocks; an
\* output created and spent in one block is absent, and the key of the coinbase
\* inputs' null outpoint is absent.
C8_FilterExact ==
    /\ build_filter =
          {KeyOf(o) : o \in CreatedUpTo(chain, built) \ SpentUpTo(chain, built)}
    /\ \A o \in CreatedUpTo(chain, built) :
          FilterContains(build_filter, KeyOf(o)) <=> o \notin SpentUpTo(chain, built)
    /\ ~FilterContains(build_filter, KeyOf(NullOutPoint))

\* C8 witness: the builder has finished a range of at least two blocks in which an
\* output was created and spent in one block, and the filter is not empty.
C8_Witness ==
    /\ phase = "parse" /\ use_filter
    /\ built = Len(chain) /\ built >= 2
    /\ build_filter /= {}
    /\ \E h \in 1..built : \E k \in DOMAIN chain[h].txdata :
          \E i \in DOMAIN chain[h].txdata[k].output : SpentInOwnBlock(h, k, i)

\* C16: every emitted UtxoTransaction has one amount per TxIn and one status per
\* TxOut, in input and output order (input() and output() pair every TxIn and TxOut
\* with its own annotation, coinbase inputs with 0), and a block that only stage one
\* has visited has all its statuses and no amount yet: each stage ran once on it.
C16_VectorsParallel ==
    \A h \in 1..stage1 : \A k \in DOMAIN blocks[h].txdata :
        LET utx == blocks[h].txdata[k]
            tx == chain[h].txdata[k]
        IN  /\ Len(utx.outputs) = Len(tx.output)
            /\ Len(output(utx)) = Len(tx.output)
            /\ \A i \in DOMAIN tx.output :
                  output(utx)[i] =
                      <<tx.output[i], status(filter, KeyOf(OutPointOf(tx, i)))>>
            /\ (h \notin Emitted /\ ~panicked) => utx.inputs = <<>>
            /\ h \in Emitted =>
                  /\ Len(utx.inputs) = Len(tx.input)
                  /\ Len(input(utx)) = Len(tx.input)
                  /\ \A i \in DOMAIN tx.input :
                        input(utx)[i] =
                            <<tx.input[i],
                              IF is_coinbase(tx) THEN 0
                              ELSE ReferencedValue(tx.input[i].previous_output)>>

\* C16 witness: a block beyond the first was emitted that holds a coinbase and a
\* spending transaction with two outputs, while a later block has passed stage one
\* only.
C16_Witness ==
    /\ stage2 >= 2 /\ stage1 > stage2 /\ ~panicked
    /\ \E k \in DOMAIN chain[stage2].txdata :
          /\ ~is_coinbase(chain[stage2].txdata[k])
          /\ Len(chain[stage2].txdata[k].output) = 2
          /\ Len(blocks[stage2].txdata[k].inputs) = 1
          /\ Len(blocks[stage2].txdata[k].outputs) = 2

\* The keys of the amount map.
MapKeys(m) == {p[1] : p \in m}

\* The status stage one wrote for the output the full outpoint o names.
WrittenStatus(o) ==
    LET hk == CHOOSE q \in TxAt : chain[q[1]].txdata[q[2]].txid = o.txid
    IN  blocks[hk[1]].txdata[hk[2]].outputs[o.vout.lo + 1]

\* C21: on a well-formed chain from genesis, after stage one of blocks 1..stage1 and
\* stage two of blocks 1..stage2 the keys of the amount map are exactly the outputs
\* created in blocks 1..stage1 whose status is not Unspent, minus the outputs
\* consumed in blocks 1..stage2; no stored output is marked Unspent; when both
\* stages have passed the last block the map is empty with the filter of the range
\* attached, and holds exactly the outputs unspent at the end without a filter.
C21_MapKeys ==
    (phase = "parse" /\ ~panicked) =>
        /\ MapKeys(amounts) =
              {KeyOf(o) : o \in {c \in CreatedUpTo(chain, stage1) :
                                    WrittenStatus(c) /= "Unspent"}}
                  \ {KeyOf(o) : o \in SpentUpTo(chain, stage2)}
        /\ \A o \in CreatedUpTo(chain, stage1) :
              WrittenStatus(o) = "Unspent" => ~MapHas(amounts, KeyOf(o))
        /\ (stage1 = Len(chain) /\ stage2 = Len(chain)) =>
              IF filter.some THEN amounts = {}
              ELSE MapKeys(amounts) =
                      {KeyOf(o) : o \in CreatedUpTo(chain, Len(chain))
                                          \ SpentUpTo(chain, Len(chain))}

\* C21 witness: with a filter attached, stage one is a block ahead of stage two, the
\* map holds an output that a block not yet through stage two consumes, and an
\* output marked Unspent was left out of it.
C21_Witness ==
    /\ phase = "parse" /\ filter.some /\ ~panicked
    /\ stage2 >= 1 /\ stage1 > stage2
    /\ amounts /= {}
    /\ \E o \in CreatedUpTo(chain, stage1) : WrittenStatus(o) = "Unspent"
    /\ \E o \in SpentUpTo(chain, stage2) : WrittenStatus(o) = "Spent"

\* ============================================================= ShortOutPoint bytes
\* usize::to_le_bytes of an index below 2^32: 8 bytes, least significant first
to_le_bytes(vout) ==
    <<vout.lo % 256, vout.lo \div 256, vout.hi % 256, vout.hi \div 256, 0, 0, 0, 0>>

\* Txid::as_byte_array: the 32 bytes of a txid whose fields are byte sequences
as_byte_array(txid) == txid.head12 \o txid.tail20

\* Mutant of ShortOutPointNewBytes: the index bytes are taken most significant first.
ShortOutPointNewBytesBigEndian(vout, txid) ==
    <<to_le_bytes(vout)[8], to_le_bytes(vout)[7]>> \o SubSeq(as_byte_array(txid), 1, 12)

\* ShortOutPoint::new, byte by byte:
\* bytes.extend_from_slice(&vout.to_le_bytes()[0..2]);
\* bytes.extend_from_slice(&txid.as_byte_array()[0..12]);
ShortOutPointNewBytes(vout, txid) ==
    SubSeq(to_le_bytes(vout), 1, 2) \o SubSeq(as_byte_array(txid), 1, 12)

\* ShortOutPoint::from_outpoint: Self::new(outpoint.vout as usize, &outpoint.txid)
from_outpoint_bytes(outpoint) == ShortOutPointNewBytes(outpoint.vout, outpoint.txid)

\* The txids tried: bytes 1 and 12 (kept by the key) and byte 13 (dropped) vary.
KeyTxid(b1, b12, b13) ==
    [head12 |-> [k \in 1..12 |-> IF k = 1 THEN b1 ELSE IF k = 12 THEN b12 ELSE 0],
     tail20 |-> [k \in 1..20 |-> IF k = 1 THEN b13 ELSE 0]]

\* The (index, txid) pairs tried: indices around the byte and 16-bit boundaries.
KeyInputs ==
    {[i |-> w * 65536 + l, t |-> KeyTxid(b1, b12, b13)] :
        w \in 0..MaxWraps, l \in {0, 1, 256, 65535},
        b1 \in 0..MaxTxidByte, b12 \in 0..MaxTxidByte, b13 \in 0..MaxTxidByte}

KeyInit ==
    /\ call \in {[fn |-> "ShortOutPoint", a |-> x, b |-> y, keys |-> <<>>] :
                    x \in KeyInputs, y \in KeyInputs}
    /\ EngineIdle
    /\ UtxoIdle
    /\ LoaderIdle

\* the key of a through ShortOutPoint::new, the key of b through from_outpoint
NewKeys ==
    /\ call.fn = "ShortOutPoint"
    /\ call.keys = <<>>
    /\ call' = [call EXCEPT !.keys =
                   <<ShortOutPointNewBytes(Index(call.a.i), call.a.t),
                     from_outpoint_bytes([txid |-> call.b.t, vout |-> Index(call.b.i)])>>]
    /\ UNCHANGED <<engineVars, chain, use_filter, phase, build_filter, built, filter,
                   amounts, stage1, stage2, blocks, panicked, builds, file>>

KeySpec == KeyInit /\ [][NewKeys]_vars

\* The 14 bytes the key of (i, t) is said to be.
KeyAsClaimed(i, t) ==
    <<(i % 65536) % 256, (i % 65536) \div 256>> \o [k \in 1..12 |-> as_byte_array(t)[k]]

\* C13: ShortOutPoint::new(i, t) is the 14 bytes le2(i mod 2^16) then t[0..12], and
\* from_outpoint gives the key of new; two pairs get the same key exactly when their
\* indices agree modulo 2^16 and their txids agree on the first 12 bytes (the keys
\* of the pipeline model agree exactly then, too).
C13_KeyEncoding ==
    call.keys /= <<>> =>
        /\ Len(call.keys[1]) = 14
        /\ call.keys[1] = KeyAsClaimed(call.a.i, call.a.t)
        /\ call.keys[2] = KeyAsClaimed(call.b.i, call.b.t)
        /\ call.keys[2] = ShortOutPointNewBytes(Index(call.b.i), call.b.t)
        /\ (call.keys[1] = call.keys[2]) <=>
              /\ call.a.i % 65536 = call.b.i % 65536
              /\ SubSeq(as_byte_array(call.a.t), 1, 12) = SubSeq(as_byte_array(call.b.t), 1, 12)
        /\ (call.keys[1] = call.keys[2]) <=>
              (ShortOutPointNew(Index(call.a.i), call.a.t) =
                  from_outpoint([txid |-> call.b.t, vout |-> Index(call.b.i)]))

\* C13 witness: two pairs whose indices differ by 65536 and whose txids differ in
\* byte 13 only were encoded to the same key.
C13_Witness ==
    /\ call.fn = "ShortOutPoint" /\ call.keys /= <<>>
    /\ call.a.i = call.b.i + 65536
    /\ call.a.t /= call.b.t
    /\ call.keys[1] = call.keys[2]

\* ============================================================= Options setters
\* A setter returns the changed Options, or panics on its assert! (self is consumed).
SetterOk(o) == [panic |-> FALSE, opts |-> o]
SetterPanic == [panic |-> TRUE, opts |-> <<>>]

\* Options::order_output
order_output(o) == SetterOk([o EXCEPT !.order_output = TRUE])

\* Mutant of num_threads: the assert! is missing.
num_threads_unchecked(o, n) == SetterOk([o EXCEPT !.num_threads = n])

\* Options::num_threads: assert!(n > 0)
num_threads(o, n) ==
    IF n > 0 THEN SetterOk([o EXCEPT !.num_threads = n]) ELSE SetterPanic

\* Options::batch_size: assert!(n > 0)
batch_size(o, n) ==
    IF n > 0 THEN SetterOk([o EXCEPT !.batch_size = n]) ELSE SetterPanic

\* Options::channel_buffer_size: assert!(n > 0)
channel_buffer_size(o, n) ==
    IF n > 0 THEN SetterOk([o EXCEPT !.channel_buffer_size = n]) ELSE SetterPanic

\* Options::log_at: assert!(n >= 1000)
log_at(o, n) ==
    IF n >= 1000 THEN SetterOk([o EXCEPT !.log_at = n]) ELSE SetterPanic

\* BlockParser::options and its overrides in ParallelParser and InOrderParser
ParserOptions ==
    {DefaultOptions,
     batch_size(DefaultOptions, 1).opts,
     order_output(batch_size(DefaultOptions, 1).opts).opts}

\* The log_at arguments tried: around the limit of 1000.
LogAtArgs == {0, 999, 1000, 1001}

\* let opts = Self::options(), before any setter is called on it
OptionsInit ==
    /\ call \in {[fn |-> "Options", opts |-> o, panicked |-> FALSE, started |-> FALSE,
                   last |-> <<"options", 0>>] : o \in ParserOptions}
    /\ EngineIdle
    /\ UtxoIdle
    /\ LoaderIdle

\* The caller applies setter `name` with argument n to the Options it holds.
Apply(name, n, r) ==
    /\ call.fn = "Options"
    /\ ~call.panicked /\ ~call.started
    /\ call' = [call EXCEPT !.opts = r.opts, !.panicked = r.panic, !.last = <<name, n>>]
    /\ UNCHANGED <<engineVars, chain, use_filter, phase, build_filter, built, filter,
                   amounts, stage1, stage2, blocks, panicked, builds, file>>

SetOrderOutput == Apply("order_output", 0, order_output(call.opts))
SetNumThreads(n) == Apply("num_threads", n, num_threads(call.opts, n))
SetBatchSize(n) == Apply("batch_size", n, batch_size(call.opts, n))
SetChannelBufferSize(n) == Apply("channel_buffer_size", n, channel_buffer_size(call.opts, n))
SetLogAt(n) == Apply("log_at", n, log_at(call.opts, n))

\* parser.parse_with_opts(headers, opts, map): the Options value reaches the engine,
\* which starts its workers
StartParse ==
    /\ call.fn = "Options"
    /\ ~call.panicked /\ ~call.started
    /\ call' = [call EXCEPT !.started = TRUE]
    /\ UNCHANGED <<engineVars, chain, use_filter, phase, build_filter, built, filter,
                   amounts, stage1, stage2, blocks, panicked, builds, file>>

OptionsNext ==
    \/ SetOrderOutput
    \/ \E n \in 0..MaxThreads : SetNumThreads(n)
    \/ \E n \in 0..MaxBatch : SetBatchSize(n)
    \/ \E n \in 0..MaxChan : SetChannelBufferSize(n)
    \/ \E n \in LogAtArgs : SetLogAt(n)
    \/ StartParse

OptionsSpec == OptionsInit /\ [][OptionsNext]_vars

ValidOptions(o) ==
    /\ o.num_threads > 0
    /\ o.batch_size > 0
    /\ o.channel_buffer_size > 0
    /\ o.log_at >= 1000

\* The setter call `last` had an argument its setter rejects.
InvalidCall(last) ==
    \/ last[1] \in {"num_threads", "batch_size", "channel_buffer_size"} /\ last[2] = 0
    \/ last[1] = "log_at" /\ last[2] < 1000

\* C14: every Options value (the defaults, the parsers' presets and whatever the
\* setters return) has num_threads, batch_size, channel_buffer_size > 0 and
\* log_at >= 1000; a setter call with an invalid argument panics at that call,
\* leaves no Options value, and parse_with_opts is never reached after it; a call
\* with a valid argument does not panic.
C14_OptionsValid ==
    call.fn = "Options" =>
        /\ ~call.panicked => ValidOptions(call.opts)
        /\ call.started => (~call.panicked /\ ValidOptions(call.opts))
        /\ call.panicked <=> InvalidCall(call.last)
        /\ call.panicked => (call.opts = <<>> /\ ~call.started)

\* C14 witness: log_at(999) was called on an Options value and panicked.
C14_Witness ==
    /\ call.fn = "Options"
    /\ call.last = <<"log_at", 999>>
    /\ call.panicked /\ ~call.started

\* ============================================================= filter file
\* ------------------------------------------------------------- builder state
\* FastRng::default: SmallRng::seed_from_u64(0x2c76c58e13b3a812), as its two halves
FastRngDefault == <<745981326, 330541074>>

\* UtxoFilter::new: an empty filter with its generator; `log` is the sequence of
\* insert and remove operations applied so far, `set` the keys it answers for
UtxoFilterNew == [rng |-> FastRngDefault, log |-> <<>>, set |-> {}]

\* The operations one UtxoFilter::update applies, in the order of its two loops.
UpdateOps(ops) ==
    [i \in 1..Len(ops[2]) |-> <<"insert", ops[2][i]>>]
        \o [i \in 1..Len(ops[1]) |-> <<"remove", ops[1][i]>>]

\* UtxoFilter::update on the filter under construction
UtxoFilterUpdate(f, ops) ==
    [f EXCEPT !.set = update(@, ops), !.log = @ \o UpdateOps(ops)]

\* bincode::serialize_into(writer, &filter): the table bytes are a function of the
\* seed and of the operations applied (kept as that pair); the generator itself is
\* not written
Serialize(f) == [valid |-> TRUE, table |-> <<f.rng, f.log>>, set |-> f.set]

\* bincode::deserialize_from(reader): the generator is rebuilt by FastRng::default
Deserialize(bytes) == [rng |-> FastRngDefault, log |-> bytes.table[2], set |-> bytes.set]

\* ------------------------------------------------------------- loader
\* File contents bincode cannot deserialize into a filter.
Garbage == NoBytes

LoadErr == [result |-> "Err", filter |-> None, parser |-> FALSE]

\* UtxoParser::load_filter; io = "fail" is an I/O error of fs::exists or File::open
load_filter(f, io) ==
    IF io = "fail" THEN LoadErr
    ELSE IF ~f.exists THEN LoadErr
    ELSE IF ~f.bytes.valid THEN LoadErr
    ELSE [result |-> "Ok", filter |-> Some(Deserialize(f.bytes).set), parser |-> TRUE]

\* Mutant of ShouldCreate: the filter is created whether or not the file exists.
ShouldCreateAlways(f) ==
    TRUE

\* load_or_create_filter: if !fs::exists(filter_file)?
ShouldCreate(f) ==
    ~f.exists

\* The ordered map of create_filter hands block `applied + 1` to update once it is
\* decoded, whatever else is decoded already.
NextInOrder(decoded, applied) ==
    \E k \in DOMAIN decoded : decoded[k] = applied + 1

Io == {"ok", "fail"}

FilterInit ==
    /\ file = NoFile
    /\ builds = [pc |-> "ready", op |-> "none", result |-> "none", existed |-> FALSE,
                 before |-> NoFile, parser |-> TRUE, frozen |-> FALSE,
                 decoded |-> <<>>, applied |-> 0, filter |-> UtxoFilterNew,
                 runs |-> <<>>]
    /\ UtxoIdle
    /\ EngineIdle
    /\ CallIdle

\* The blocks directory: the range's next block, until the first call is made.
RangeExtend ==
    /\ builds.pc = "ready"
    /\ ~builds.frozen
    /\ Len(chain) < MaxBuildBlocks
    /\ \E b \in NextBlocks(chain) : chain' = Append(chain, b)
    /\ UNCHANGED <<engineVars, use_filter, phase, build_filter, built, filter, amounts,
                   stage1, stage2, blocks, panicked, builds, file, call>>

\* Someone puts a file at the path: not a filter, or a filter of another range.
PlaceFile ==
    /\ builds.pc = "ready"
    /\ ~file.exists
    /\ \E bytes \in {Garbage, Serialize(UtxoFilterNew)} :
          file' = [exists |-> TRUE, bytes |-> bytes]
    /\ UNCHANGED <<engineVars, chain, use_filter, phase, build_filter, built, filter,
                   amounts, stage1, stage2, blocks, panicked, builds, call>>

\* Someone deletes the file.
DeleteFile ==
    /\ builds.pc = "ready"
    /\ file.exists
    /\ file' = NoFile
    /\ UNCHANGED <<engineVars, chain, use_filter, phase, build_filter, built, filter,
                   amounts, stage1, stage2, blocks, panicked, builds, call>>

\* The call returns: its result, the parser it yields (if any) and that parser's filter.
Returns(b, r) ==
    [b EXCEPT !.pc = "returned", !.result = r.result, !.parser = r.parser]

\* create_filter begins: UtxoFilter::new, then the parse over the range starts
StartsCreate(b, op) ==
    [b EXCEPT !.pc = "create", !.op = op, !.frozen = TRUE, !.existed = file.exists,
              !.before = file, !.decoded = <<>>, !.applied = 0,
              !.filter = UtxoFilterNew]

\* UtxoParser::load_or_create_filter
CallLoadOrCreate ==
    /\ builds.pc = "ready"
    /\ \E io \in Io :
          LET b == [builds EXCEPT !.op = "load_or_create_filter", !.frozen = TRUE,
                                  !.existed = file.exists, !.before = file]
          IN  IF io = "fail"
              THEN builds' = Returns(b, LoadErr) /\ UNCHANGED filter
              ELSE IF ShouldCreate(file)
              THEN /\ Len(builds.runs) < MaxBuilds
                   /\ builds' = StartsCreate(builds, "load_or_create_filter")
                   /\ UNCHANGED filter
              ELSE /\ builds' = Returns(b, load_filter(file, "ok"))
                   /\ filter' = load_filter(file, "ok").filter
    /\ UNCHANGED <<engineVars, chain, use_filter, phase, build_filter, built, amounts,
                   stage1, stage2, blocks, panicked, file, call>>

\* UtxoParser::load_filter
CallLoadFilter ==
    /\ builds.pc = "ready"
    /\ \E io \in Io :
          LET b == [builds EXCEPT !.op = "load_filter", !.frozen = TRUE,
                                  !.existed = file.exists, !.before = file]
          IN  /\ builds' = Returns(b, load_filter(file, io))
              /\ filter' = load_filter(file, io).filter
    /\ UNCHANGED <<engineVars, chain, use_filter, phase, build_filter, built, amounts,
                   stage1, stage2, blocks, panicked, file, call>>

\* UtxoParser::create_filter, called directly
CallCreateFilter ==
    /\ builds.pc = "ready"
    /\ Len(builds.runs) < MaxBuilds
    /\ builds' = StartsCreate(builds, "create_filter")
    /\ UNCHANGED <<engineVars, chain, use_filter, phase, build_filter, built, filter,
                   amounts, stage1, stage2, blocks, panicked, file, call>>

\* parse(UtxoFilter::outpoints): a decode worker finishes block h, in any order
BuildDecode(h) ==
    /\ builds.pc = "create"
    /\ \A k \in DOMAIN builds.decoded : builds.decoded[k] /= h
    /\ builds' = [builds EXCEPT !.decoded = Append(@, h)]
    /\ UNCHANGED <<engineVars, chain, use_filter, phase, build_filter, built, filter,
                   amounts, stage1, stage2, blocks, panicked, file, call>>

\* .ordered().map(&|outpoints| filter.update(outpoints)): the next block in order
BuildUpdate ==
    /\ builds.pc = "create"
    /\ NextInOrder(builds.decoded, builds.applied)
    /\ builds' = [builds EXCEPT
                    !.filter = UtxoFilterUpdate(@, outpoints(chain[builds.applied + 1])),
                    !.applied = @ + 1]
    /\ UNCHANGED <<engineVars, chain, use_filter, phase, build_filter, built, filter,
                   amounts, stage1, stage2, blocks, panicked, file, call>>

\* create_filter after the pass: shrink_to_fit, File::create, serialize_into; then,
\* within load_or_create_filter, load_filter of the file just written
BuildFinish ==
    /\ builds.pc = "create"
    /\ builds.applied = Len(chain)
    /\ \E io \in {"ok", "create_fails", "write_fails"}, io2 \in Io :
          LET written == [exists |-> TRUE, bytes |-> Serialize(builds.filter)]
              f == IF io = "ok" THEN written
                   ELSE IF io = "write_fails" THEN [exists |-> TRUE, bytes |-> Garbage]
                   ELSE file
              run == [order |-> builds.decoded, log |-> builds.filter.log,
                      seed |-> builds.filter.rng,
                      bytes |-> IF io = "ok" THEN written.bytes ELSE NoBytes]
              r == IF io /= "ok" THEN LoadErr
                   ELSE IF builds.op = "create_filter"
                   THEN [result |-> "Ok", filter |-> None, parser |-> TRUE]
                   ELSE load_filter(f, io2)
          IN  /\ file' = f
              /\ filter' = r.filter
              /\ builds' = [Returns(builds, r) EXCEPT !.runs = Append(@, run)]
    /\ UNCHANGED <<engineVars, chain, use_filter, phase, build_filter, built, amounts,
                   stage1, stage2, blocks, panicked, call>>

\* UtxoParser::new: a fresh parser over the same blocks directory
NewParser ==
    /\ builds.pc = "returned"
    /\ builds' = [builds EXCEPT !.pc = "ready", !.op = "none", !.result = "none",
                                !.parser = TRUE, !.existed = FALSE, !.before = NoFile,
                                !.decoded = <<>>, !.applied = 0,
                                !.filter = UtxoFilterNew]
    /\ filter' = None
    /\ UNCHANGED <<engineVars, chain, use_filter, phase, build_filter, built, amounts,
                   stage1, stage2, blocks, panicked, file, call>>

FilterNext ==
    \/ RangeExtend
    \/ PlaceFile
    \/ DeleteFile
    \/ CallLoadOrCreate
    \/ CallLoadFilter
    \/ CallCreateFilter
    \/ \E h \in 1..Len(chain) : BuildDecode(h)
    \/ BuildUpdate
    \/ BuildFinish
    \/ NewParser

FilterSpec == FilterInit /\ [][FilterNext]_vars

\* ============================================================= filter file properties
\* C15: load_or_create_filter starts a build only when the file does not exist and
\* leaves an existing file as it is; when it returns Ok the file exists and the
\* parser it returns has a filter; load_filter on a missing file returns Err and
\* yields no parser and no filter.
C15_LoaderContract ==
    builds.pc /= "idle" =>
        /\ (builds.op = "load_or_create_filter" /\ builds.existed) =>
              (builds.pc /= "create" /\ file = builds.before)
        /\ (builds.op = "load_or_create_filter" /\ builds.result = "Ok") =>
              (file.exists /\ builds.parser /\ filter.some)
        /\ (builds.op = "load_filter" /\ builds.pc = "returned" /\ ~builds.existed) =>
              (builds.result = "Err" /\ ~builds.parser /\ ~filter.some)

\* C15 witness: a load_or_create_filter call found the file written by an earlier
\* build, did not build again and returned Ok with that filter attached.
C15_Witness ==
    /\ builds.pc = "returned"
    /\ builds.op = "load_or_create_filter" /\ builds.result = "Ok" /\ builds.existed
    /\ Len(builds.runs) = 1
    /\ file.bytes = builds.runs[1].bytes
    /\ filter = Some(builds.runs[1].bytes.set)
    /\ filter.set /= {}

\* ============================================================= pipeline on faulty input
\* load_filter attaches a file that create_filter wrote for a shorter range: the
\* filter of blocks 1..built, while the parse covers the whole range.
LoadStaleFilter ==
    /\ phase = "build"
    /\ 0 < built /\ built < Len(chain)
    /\ filter' = Some(build_filter)
    /\ phase' = "parse"
    /\ UNCHANGED <<engineVars, chain, use_filter, build_filter, built, amounts,
                   stage1, stage2, blocks, panicked, builds, file, call>>

\* The attached filter answers contains = true for one key that is not in it (a
\* false positive of the cuckoo filter) and never false for a key that is in it.
LoadFilterFalsePositive ==
    /\ phase = "build"
    /\ built = Len(chain) /\ built > 0
    /\ \E key \in {KeyOf(o) : o \in CreatedUpTo(chain, Len(chain))} \ build_filter :
          filter' = Some(build_filter \cup {key})
    /\ phase' = "parse"
    /\ UNCHANGED <<engineVars, chain, use_filter, build_filter, built, amounts,
                   stage1, stage2, blocks, panicked, builds, file, call>>

\* The blocks directory has lost its first file: the descriptor sequence the parse
\* covers starts after the genesis block.
StartAfterGenesis ==
    /\ phase = "parse"
    /\ stage1 = 0
    /\ Len(chain) >= 2
    /\ chain' = Tail(chain)
    /\ UNCHANGED <<engineVars, use_filter, phase, build_filter, built, filter, amounts,
                   stage1, stage2, blocks, panicked, builds, file, call>>

FaultNext == UtxoNext \/ LoadStaleFilter \/ LoadFilterFalsePositive \/ StartAfterGenesis

FaultSpec == UtxoInit /\ [][FaultNext]_vars

\* Some non-coinbase input of the block has no entry under its key in the map.
MissingIn(amts, block) ==
    \E k \in DOMAIN block.txdata : \E i \in DOMAIN block.txdata[k].transaction.input :
        /\ ~is_coinbase(block.txdata[k].transaction)
        /\ ~MapHas(amts, from_outpoint(block.txdata[k].transaction.input[i].previous_output))

\* Transaction k of the block is where stage two stopped: its next input is a
\* non-coinbase input without an entry and has no amount, the transactions before
\* it are complete and those after it untouched.
StoppedAt(amts, block, k) ==
    LET utx == block.txdata[k]
        n == Len(utx.inputs)
    IN  /\ ~is_coinbase(utx.transaction)
        /\ n < Len(utx.transaction.input)
        /\ ~MapHas(amts, from_outpoint(utx.transaction.input[n + 1].previous_output))
        /\ \A j \in DOMAIN block.txdata :
              /\ j < k => Len(block.txdata[j].inputs) = Len(block.txdata[j].transaction.input)
              /\ j > k => block.txdata[j].inputs = <<>>

\* C22: stage two lets a block through only if every non-coinbase input of it has
\* its entry; when an entry is missing (range not starting at genesis, stale filter,
\* false positive) it stops at that input without an amount for it, the block is
\* not among the emitted blocks, every emitted block has all its amounts, and
\* nothing more is processed or emitted afterwards: there is no per-item error.
C22_MissingIsFatal ==
    /\ [](panicked =>
            /\ stage2 < stage1
            /\ \E k \in DOMAIN blocks[stage2 + 1].txdata :
                  StoppedAt(amounts, blocks[stage2 + 1], k))
    /\ [](\A h \in Emitted : \A k \in DOMAIN blocks[h].txdata :
            Len(blocks[h].txdata[k].inputs) = Len(chain[h].txdata[k].input))
    /\ [][(stage2' /= stage2) =>
            (stage2' = stage2 + 1 /\ ~panicked' /\ ~MissingIn(amounts, blocks[stage2 + 1]))]_vars
    /\ [][(phase = "parse" /\ stage2 < stage1 /\ blocks' /= blocks /\ stage1' = stage1
             /\ MissingIn(amounts, blocks[stage2 + 1])) =>
            (panicked' /\ stage2' = stage2)]_vars
    /\ [][panicked => UNCHANGED <<stage1, stage2, blocks, amounts, panicked>>]_vars

\* C22 witness: after at least one block was emitted, stage two stopped at an input
\* of a later block whose entry is missing.
C22_Witness ==
    /\ panicked
    /\ stage2 >= 1 /\ stage2 < stage1
    /\ MissingIn(amounts, blocks[stage2 + 1])

\* Every input of the range references an output created earlier in the range.
FromGenesis(c) == \A h \in DOMAIN c : BlockSpent(c[h]) \subseteq CreatedUpTo(c, h)

\* The keys of the outputs of the range that no input of the range consumes: the keys
\* the filter of the range holds.
UnspentKeys(c) == {KeyOf(o) : o \in CreatedUpTo(c, Len(c)) \ SpentUpTo(c, Len(c))}

\* C23: on a chain from genesis, with a filter that answers true for every key of an
\* output unspent at the end of the range and possibly for other keys too, no output
\* consumed in the range is marked Unspent and stage two never misses an entry.
C23_FalsePositivesHarmless ==
    (phase = "parse" /\ filter.some /\ FromGenesis(chain)
        /\ UnspentKeys(chain) \subseteq filter.set) =>
        /\ ~panicked
        /\ \A o \in CreatedUpTo(chain, stage1) :
              WrittenStatus(o) = "Unspent" => o \notin SpentUpTo(chain, Len(chain))

\* ============================================================= pipeline, step by step
\* The two stages as they run on their threads: stage one handles one output and
\* stage two one input per step, on the shared amount map. call.first = <<k, index>>
\* is the transaction and output (from 0) stage one is at in block stage1 + 1;
\* call.second = <<k, i>> the transaction and input (from 1) stage two is at in
\* block stage2 + 1.
PipelineStart == [fn |-> "Pipeline", first |-> <<1, 0>>, second |-> <<1, 1>>]

ConcInit ==
    /\ chain = <<>>
    /\ use_filter \in BOOLEAN
    /\ phase = IF use_filter THEN "build" ELSE "parse"
    /\ build_filter = {}
    /\ built = 0
    /\ filter = None
    /\ amounts = {}
    /\ stage1 = 0
    /\ stage2 = 0
    /\ blocks = <<>>
    /\ panicked = FALSE
    /\ call = PipelineStart
    /\ LoaderIdle
    /\ EngineIdle

\* Pipeline::first, one iteration of the loop over a transaction's outputs
FirstOutputStep(flt, amts, tx, index) ==
    LET outpoint == ShortOutPointNew(Index(index), tx.txid)
        st == status(flt, outpoint)
        value == tx.transaction.output[index + 1].value
    IN  [amounts |-> IF st /= "Unspent" THEN MapInsert(amts, outpoint, value) ELSE amts,
         tx |-> [tx EXCEPT !.outputs = Append(@, st)]]

\* Mutant of SecondInputStep: the entry is read and its amount set to 0 in the map.
SecondInputStepZeroesEntry(amts, tx, i) ==
    IF is_coinbase(tx.transaction)
    THEN [amounts |-> amts, tx |-> [tx EXCEPT !.inputs = Append(@, 0)], panic |-> FALSE]
    ELSE LET outpoint == from_outpoint(tx.transaction.input[i].previous_output)
         IN  IF ~MapHas(amts, outpoint)
             THEN [amounts |-> amts, tx |-> tx, panic |-> TRUE]
             ELSE [amounts |-> MapInsert(amts, outpoint, 0),
                   tx |-> [tx EXCEPT !.inputs = Append(@, MapGet(amts, outpoint))],
                   panic |-> FALSE]

\* Mutant of SecondInputStep: the entry is read and left in the map.
SecondInputStepKeepsEntry(amts, tx, i) ==
    IF is_coinbase(tx.transaction)
    THEN [amounts |-> amts, tx |-> [tx EXCEPT !.inputs = Append(@, 0)], panic |-> FALSE]
    ELSE LET outpoint == from_outpoint(tx.transaction.input[i].previous_output)
         IN  IF ~MapHas(amts, outpoint)
             THEN [amounts |-> amts, tx |-> tx, panic |-> TRUE]
             ELSE [amounts |-> amts,
                   tx |-> [tx EXCEPT !.inputs = Append(@, MapGet(amts, outpoint))],
                   panic |-> FALSE]

\* Pipeline::second, one iteration of the loop over a transaction's inputs
SecondInputStep(amts, tx, i) ==
    IF is_coinbase(tx.transaction)
    THEN [amounts |-> amts, tx |-> [tx EXCEPT !.inputs = Append(@, 0)], panic |-> FALSE]
    ELSE LET outpoint == from_outpoint(tx.transaction.input[i].previous_output)
         IN  IF ~MapHas(amts, outpoint)
             THEN [amounts |-> amts, tx |-> tx, panic |-> TRUE]
             ELSE [amounts |-> MapRemove(amts, outpoint),
                   tx |-> [tx EXCEPT !.inputs = Append(@, MapGet(amts, outpoint))],
                   panic |-> FALSE]

\* The block stage one is working on: UtxoBlock::new of the next block, or that
\* block with the statuses pushed so far.
FirstBlock ==
    IF Len(blocks) > stage1 THEN blocks[stage1 + 1] ELSE UtxoBlockNew(chain[stage1 + 1])

\* stage one of block stage1 + 1 handles its next output
FirstStep ==
    /\ phase = "parse"
    /\ ~panicked
    /\ MayRunFirst
    /\ LET k == call.first[1]
           index == call.first[2]
           block == FirstBlock
           r == FirstOutputStep(filter, amounts, block.txdata[k], index)
           done == [block EXCEPT !.txdata[k] = r.tx]
           last_output == index + 1 >= Len(block.txdata[k].transaction.output)
           last_tx == k >= Len(block.txdata)
       IN  /\ amounts' = r.amounts
           /\ blocks' = IF Len(blocks) > stage1 THEN [blocks EXCEPT ![stage1 + 1] = done]
                        ELSE Append(blocks, done)
           /\ stage1' = IF last_output /\ last_tx THEN stage1 + 1 ELSE stage1
           /\ call' = [call EXCEPT !.first = IF ~last_output THEN <<k, index + 1>>
                                             ELSE IF ~last_tx THEN <<k + 1, 0>>
                                             ELSE <<1, 0>>]
    /\ UNCHANGED <<engineVars, chain, use_filter, phase, build_filter, built, filter,
                   stage2, panicked, builds, file>>

\* stage two of block stage2 + 1 handles its next input
SecondStep ==
    /\ phase = "parse"
    /\ ~panicked
    /\ MayRunSecond
    /\ LET k == call.second[1]
           i == call.second[2]
           block == blocks[stage2 + 1]
           r == SecondInputStep(amounts, block.txdata[k], i)
           last_input == i >= Len(block.txdata[k].transaction.input)
           last_tx == k >= Len(block.txdata)
       IN  /\ amounts' = r.amounts
           /\ blocks' = [blocks EXCEPT ![stage2 + 1].txdata[k] = r.tx]
           /\ panicked' = r.panic
           /\ stage2' = IF ~r.panic /\ last_input /\ last_tx THEN stage2 + 1 ELSE stage2
           /\ call' = IF r.panic THEN call
                      ELSE [call EXCEPT !.second = IF ~last_input THEN <<k, i + 1>>
                                                   ELSE IF ~last_tx THEN <<k + 1, 1>>
                                                   ELSE <<1, 1>>]
    /\ UNCHANGED <<engineVars, chain, use_filter, phase, build_filter, built, filter,
                   stage1, builds, file>>

ConcNext == Decode \/ FilterUpdate \/ LoadFilter \/ FirstStep \/ SecondStep

ConcSpec == ConcInit /\ [][ConcNext]_vars

\* The fully sequential execution over the blocks of c: first then second on each
\* block in turn. Its UtxoBlocks, and the amount map it ends with.
RECURSIVE Sequential(_, _, _, _)
Sequential(flt, c, h, acc) ==
    IF h > Len(c) THEN acc
    ELSE LET r1 == first(flt, acc.amounts, UtxoBlockNew(c[h]))
             r2 == second(r1.amounts, r1.block)
         IN  Sequential(flt, c, h + 1,
                        [amounts |-> r2.amounts, blocks |-> Append(acc.blocks, r2.block),
                         panic |-> acc.panic \/ r2.panic])

SequentialRun(flt, c) == Sequential(flt, c, 1, [amounts |-> {}, blocks |-> <<>>, panic |-> FALSE])

\* C24: on a well-formed chain from genesis, however the steps of stage one (blocks
\* in order) and of stage two (blocks in order, a block after its stage one) are
\* interleaved on the shared amount map, stage two never misses an entry, every
\* emitted UtxoBlock equals the one of the sequential execution, every block through
\* stage one has the sequential statuses, and when both stages are through the same
\* block the amount map is the sequential one.
C24_SameAsSequential ==
    phase = "parse" =>
        LET seq == SequentialRun(filter, SubSeq(chain, 1, stage1))
        IN  /\ ~panicked
            /\ ~seq.panic
            /\ \A h \in Emitted : blocks[h] = seq.blocks[h]
            /\ \A h \in 1..stage1 : \A k \in DOMAIN blocks[h].txdata :
                  blocks[h].txdata[k].outputs = seq.blocks[h].txdata[k].outputs
            /\ (stage2 = stage1 /\ call.first = <<1, 0>>) => amounts = seq.amounts

\* C24 witness: stage two is in the middle of a block (one of its transactions has
\* its amounts, a later one not yet) while stage one, in the block after it, is in the
\* middle of its block, and the map holds entries.
C24_Witness ==
    /\ phase = "parse" /\ ~panicked
    /\ stage2 >= 1 /\ stage1 = stage2 + 1
    /\ call.second[1] >= 2
    /\ call.first /= <<1, 0>>
    /\ Len(blocks) = stage1 + 1
    /\ amounts /= {}

\* A step of stage one / of stage two, seen from the state change.
FirstStepped == call'.first /= call.first \/ stage1' /= stage1
SecondStepped == call'.second /= call.second \/ stage2' /= stage2 \/ panicked' /= panicked

\* What a stage must leave alone in every block: header, transaction and txid, and
\* the other stage's vector.
SameBlockData(b1, b2) ==
    /\ b1.header = b2.header
    /\ DOMAIN b1.txdata = DOMAIN b2.txdata
    /\ \A k \in DOMAIN b1.txdata :
          /\ b1.txdata[k].transaction = b2.txdata[k].transaction
          /\ b1.txdata[k].txid = b2.txdata[k].txid

\* C25: while the pipeline runs the filter never changes; a step of stage one only
\* adds to the amount map (no entry is removed or overwritten) and a step of stage
\* two only removes from it (nothing is inserted or overwritten); neither changes a
\* header, transaction or txid, and every UtxoBlock carries the header, the
\* transactions and the txids of its block of the chain.
C25_StagesFrame ==
    /\ [][phase = "parse" => filter' = filter]_vars
    /\ [][FirstStepped =>
            /\ amounts \subseteq amounts'
            /\ \A h \in DOMAIN blocks : SameBlockData(blocks[h], blocks'[h])
            /\ \A h \in DOMAIN blocks : \A k \in DOMAIN blocks[h].txdata :
                  blocks'[h].txdata[k].inputs = blocks[h].txdata[k].inputs]_vars
    /\ [][SecondStepped =>
            /\ amounts' \subseteq amounts
            /\ DOMAIN blocks' = DOMAIN blocks
            /\ \A h \in DOMAIN blocks : SameBlockData(blocks[h], blocks'[h])
            /\ \A h \in DOMAIN blocks : \A k \in DOMAIN blocks[h].txdata :
                  blocks'[h].txdata[k].outputs = blocks[h].txdata[k].outputs]_vars
    /\ [](\A h \in DOMAIN blocks :
            /\ blocks[h].header = chain[h].header
            /\ \A k \in DOMAIN blocks[h].txdata :
                  /\ blocks[h].txdata[k].transaction = chain[h].txdata[k]
                  /\ blocks[h].txdata[k].txid = chain[h].txdata[k].txid)

\* C25 witness: with a filter attached, stage one has inserted entries and stage two
\* has removed some, and an emitted block lies behind the block stage one is in.
C25_Witness ==
    /\ phase = "parse" /\ filter.some /\ ~panicked
    /\ stage2 >= 1
    /\ call.first /= <<1, 0>>
    /\ amounts /= {}
    /\ \E k \in DOMAIN blocks[1].txdata : ~is_coinbase(blocks[1].txdata[k].transaction)
====
